---- MODULE Spec2Model ----
(***************************************************************************)
(* Session store of sandbox/server/session_store.py: the SessionData       *)
(* record, the in-memory MemorySessionStore and the Redis-backed           *)
(* RedisSessionStore, driven side by side by the same sequence of caller   *)
(* operations and clock advances.                                          *)
(*                                                                         *)
(* Python object identity matters for the in-memory store (it keeps the    *)
(* caller's object, not a copy), so the memory side has a heap of          *)
(* SessionData objects and references into it; the Redis side holds        *)
(* serialized payloads, and its callers hold plain record values.          *)
(* An optional value is a sequence: <<>> is None, <<v>> is v.  A null      *)
(* object reference is 0.                                                  *)
(***************************************************************************)
EXTENDS Integers, Sequences, FiniteSets, TLC

\* ---- bounds of the model ----
MaxTime == 4
NObj == 2

Callers == {"c1"}
Sids == {"abc"}
Languages == {"python", "js"}
TTLs == {1, 2}
NoFiles == [p \in {} |-> "x"]
FilesDom == {NoFiles, [p \in {"a.py"} |-> "x"]}
Objs == 1..NObj

VARIABLES
    now,        \* time.time()
    heap,       \* memory side: SessionData objects by reference
    mlocal,     \* memory side: the record each caller holds (reference, 0 = None)
    _store,     \* MemorySessionStore._store: sid -> reference (0 = no entry)
    mret,       \* memory side: what the last store call returned (reference)
    rlocal,     \* redis side: the record each caller holds (optional value)
    rds,        \* the Redis keyspace: key -> optional [payload, exp]
    rret,       \* redis side: what the last store call returned (optional value)
    last,       \* the last caller operation: [op, c, sid] and, for a store call,
                \* before: what each store held under sid when the call began
    wire,       \* a serialized payload in flight (optional)
    err,        \* the exception the last operation raised ("" = none)
    environ,    \* os.environ: name -> optional string
    store,      \* what get_store() returned (optional [kind, url])
    up,         \* whether the Redis server can be reached
    calls,      \* commands the last operation sent to the Redis server
    pc,         \* concurrent tasks: where each one stands inside its store call
    running     \* the task the event loop is running ("none" between tasks)

vars == <<now, heap, mlocal, _store, mret, rlocal, rds, rret, last>>
xvars == <<wire, err, environ, store, up, calls, pc, running>>
allvars == <<vars, xvars>>

\* ---- SessionData ----
SessionData(language, ttl, files, t) ==
    [language |-> language, ttl |-> ttl, last_used |-> t,
     files |-> IF files = <<>> THEN NoFiles ELSE files[1]]

touch(self, t) == [self EXCEPT !.last_used = t]

\* the operands of the subtraction swapped
expired_swapped(self, t) == self.last_used - t > self.ttl

\* the boundary counted as expired
expired_geq(self, t) == t - self.last_used >= self.ttl

expired(self, t) == t - self.last_used > self.ttl

\* JSON values carry their JSON type
JStr(s) == <<"string", s>>
JNum(n) == <<"number", n>>
JObj(m) == <<"object", [k \in DOMAIN m |-> <<"string", m[k]>>]>>
PyValue(j) ==
    IF j[1] = "object" THEN [k \in DOMAIN j[2] |-> j[2][k][2]] ELSE j[2]

dumps(self) ==
    [language |-> JStr(self.language), ttl |-> JNum(self.ttl),
     last_used |-> JNum(self.last_used), files |-> JObj(self.files)]

\* leaves last_used at the time of construction
loads_fresh(payload) ==
    LET obj == [k \in DOMAIN payload |-> PyValue(payload[k])]
    IN SessionData(obj["language"], obj["ttl"],
                   IF obj["files"] = NoFiles THEN <<>> ELSE <<obj["files"]>>,
                   now)

loads(payload) ==
    LET obj == [k \in DOMAIN payload |-> PyValue(payload[k])]
        inst == SessionData(obj["language"], obj["ttl"],
                            IF obj["files"] = NoFiles THEN <<>> ELSE <<obj["files"]>>,
                            now)
    IN [inst EXCEPT !.last_used = obj["last_used"]]

FreeObj == [language |-> "", ttl |-> 0, last_used |-> 0, files |-> NoFiles]

\* ---- MemorySessionStore ----
\* keeps an existing entry (setdefault) instead of overwriting it
MemoryCreate_ifabsent(st, sid, data) ==
    IF st[sid] = 0 THEN [st EXCEPT ![sid] = data] ELSE st

MemoryCreate(st, sid, data) == [st EXCEPT ![sid] = data]

MemoryDelete(st, sid) == [st EXCEPT ![sid] = 0]

\* reports absence for an expired entry but leaves it in the mapping
MemoryGet_keep(st, h, sid, t) ==
    LET data == st[sid] IN
    IF data # 0 /\ expired(h[data], t)
    THEN [store |-> st, ret |-> 0]
    ELSE [store |-> st, ret |-> data]

MemoryGet(st, h, sid, t) ==
    LET data == st[sid] IN
    IF data # 0 /\ expired(h[data], t)
    THEN [store |-> MemoryDelete(st, sid), ret |-> 0]
    ELSE [store |-> st, ret |-> data]

MemorySave(st, sid, data) == [st EXCEPT ![sid] = data]

\* ---- the Redis server: SET key value EX seconds, GET key, DEL key ----
\* one key for every session
_key_nosid(sid) == "sf:session:"

_key(sid) == "sf:session:" \o sid
Keys == {_key(sid) : sid \in Sids}

r_set(db, key, value, ex, t) ==
    [db EXCEPT ![key] = <<[payload |-> value, exp |-> t + ex]>>]

r_get(db, key, t) ==
    IF db[key] = <<>> \/ t > db[key][1].exp THEN <<>> ELSE <<db[key][1].payload>>

r_delete(db, key) == [db EXCEPT ![key] = <<>>]

\* keys whose expiry time has passed are gone from the keyspace
r_expire(db, t) ==
    [k \in DOMAIN db |-> IF db[k] # <<>> /\ t > db[k][1].exp THEN <<>> ELSE db[k]]

\* ---- RedisSessionStore ----

\* a save that touches the record it stores
RedisSave_touch(db, sid, data, t) ==
    r_set(db, _key(sid), dumps(touch(data, t)), data.ttl, t)

\* a save that updates last_used and files of an existing payload only
RedisSave_partial(db, sid, data, t) ==
    IF db[_key(sid)] = <<>>
    THEN r_set(db, _key(sid), dumps(data), data.ttl, t)
    ELSE r_set(db, _key(sid),
               [db[_key(sid)][1].payload EXCEPT !.last_used = dumps(data).last_used,
                                                !.files = dumps(data).files],
               data.ttl, t)

RedisSave(db, sid, data, t) == r_set(db, _key(sid), dumps(data), data.ttl, t)

\* SET ... KEEPTTL: writes the value, keeps the timer of an existing key
RedisCreate_keepttl(db, sid, data, t) ==
    IF db[_key(sid)] = <<>> THEN RedisSave(db, sid, data, t)
    ELSE [db EXCEPT ![_key(sid)] = <<[payload |-> dumps(data), exp |-> @[1].exp]>>]

RedisCreate(db, sid, data, t) == RedisSave(db, sid, data, t)

\* DEL of the bare sid instead of the namespaced key
RedisDelete_rawkey(db, sid) ==
    IF sid \in DOMAIN db THEN r_delete(db, sid) ELSE db

RedisDelete(db, sid) == r_delete(db, _key(sid))

\* relies on the key's native expiry alone, without the check of the record
RedisGet_nocheck(db, sid, t) ==
    LET payload == r_get(db, _key(sid), t) IN
    IF payload = <<>>
    THEN [db |-> db, ret |-> <<>>]
    ELSE [db |-> db, ret |-> <<loads(payload[1])>>]

\* a read of a live record re-arms the key's expiry (GETEX key EX ttl)
RedisGet_rearm(db, sid, t) ==
    LET payload == r_get(db, _key(sid), t) IN
    IF payload = <<>>
    THEN [db |-> db, ret |-> <<>>]
    ELSE LET data == loads(payload[1]) IN
         IF expired(data, t)
         THEN [db |-> RedisDelete(db, sid), ret |-> <<>>]
         ELSE [db |-> r_set(db, _key(sid), payload[1], data.ttl, t), ret |-> <<data>>]

RedisGet(db, sid, t) ==
    LET payload == r_get(db, _key(sid), t) IN
    IF payload = <<>>
    THEN [db |-> db, ret |-> <<>>]
    ELSE LET data == loads(payload[1]) IN
         IF expired(data, t)
         THEN [db |-> RedisDelete(db, sid), ret |-> <<>>]
         ELSE [db |-> db, ret |-> <<data>>]

\* ---- the heap of the memory side ----
Referenced(ml, st) == {ml[c] : c \in Callers} \cup {st[s] : s \in Sids}

\* objects no caller and no store entry refers to any more are collected
Collect(h, ml, st) ==
    [o \in Objs |-> IF o \in Referenced(ml, st) THEN h[o] ELSE FreeObj]

\* a fresh object for caller c: one nothing else refers to
Alloc(c) ==
    LET others == {mlocal[d] : d \in Callers \ {c}} \cup {_store[s] : s \in Sids}
        free == Objs \ others
    IN CHOOSE o \in free : \A p \in free : o <= p

\* what a store holds under sid: "absent", a "live" record or an "expired" one
MemoryEntry(sid) ==
    IF _store[sid] = 0 THEN "absent"
    ELSE IF now - heap[_store[sid]].last_used > heap[_store[sid]].ttl THEN "expired"
    ELSE "live"

RedisEntry(sid) ==
    IF rds[_key(sid)] = <<>> THEN "absent"
    ELSE LET p == rds[_key(sid)][1].payload IN
         IF now - p.last_used[2] > p.ttl[2] THEN "expired" ELSE "live"

Entries(sid) == [m |-> MemoryEntry(sid), r |-> RedisEntry(sid)]
NoEntries == [m |-> "-", r |-> "-"]

\* the part of the state the side-by-side run of the two stores leaves alone
Tasks == {"t1", "t2"}
EnvNames == {"REDIS_URL", "REDIS_URI"}
Idle == [at |-> "idle", sid |-> "", data |-> <<>>]
XInit ==
    /\ wire = <<>>
    /\ err = ""
    /\ environ = [n \in EnvNames |-> <<>>]
    /\ store = <<>>
    /\ up = TRUE
    /\ calls = 0
    /\ pc = [k \in Tasks |-> Idle]
    /\ running = "none"

Init ==
    /\ XInit
    /\ now = 0
    /\ heap = [o \in Objs |-> FreeObj]
    /\ mlocal = [c \in Callers |-> 0]
    /\ _store = [s \in Sids |-> 0]
    /\ mret = 0
    /\ rlocal = [c \in Callers |-> <<>>]
    /\ rds = [k \in Keys |-> <<>>]
    /\ rret = <<>>
    /\ last = [op |-> "init", c |-> "c1", sid |-> "abc", before |-> NoEntries]

\* ---- caller operations, applied to both stores ----

\* data = SessionData(language, ttl, files)
Construct(c, language, ttl, files) ==
    LET o == Alloc(c)
        ml == [mlocal EXCEPT ![c] = o]
        rec == SessionData(language, ttl, files, now)
    IN /\ mlocal' = ml
       /\ heap' = Collect([heap EXCEPT ![o] = rec], ml, _store)
       /\ rlocal' = [rlocal EXCEPT ![c] = <<rec>>]
       /\ mret' = 0 /\ rret' = <<>>
       /\ last' = [op |-> "construct", c |-> c, sid |-> last.sid, before |-> NoEntries]
       /\ UNCHANGED <<now, _store, rds, xvars>>

\* data.touch()
Touch(c) ==
    /\ mlocal[c] # 0 \/ rlocal[c] # <<>>
    /\ heap' = IF mlocal[c] = 0 THEN heap
               ELSE [heap EXCEPT ![mlocal[c]] = touch(@, now)]
    /\ rlocal' = IF rlocal[c] = <<>> THEN rlocal
                 ELSE [rlocal EXCEPT ![c] = <<touch(@[1], now)>>]
    /\ mret' = 0 /\ rret' = <<>>
    /\ last' = [op |-> "touch", c |-> c, sid |-> last.sid, before |-> NoEntries]
    /\ UNCHANGED <<now, mlocal, _store, rds, xvars>>

\* data.files = files
SetFiles(c, files) ==
    /\ mlocal[c] # 0 \/ rlocal[c] # <<>>
    /\ heap' = IF mlocal[c] = 0 THEN heap
               ELSE [heap EXCEPT ![mlocal[c]].files = files]
    /\ rlocal' = IF rlocal[c] = <<>> THEN rlocal
                 ELSE [rlocal EXCEPT ![c] = <<[@[1] EXCEPT !.files = files]>>]
    /\ mret' = 0 /\ rret' = <<>>
    /\ last' = [op |-> "setfiles", c |-> c, sid |-> last.sid, before |-> NoEntries]
    /\ UNCHANGED <<now, mlocal, _store, rds, xvars>>

\* await store.create(sid, data)
Create(c, sid) ==
    /\ mlocal[c] # 0 \/ rlocal[c] # <<>>
    /\ _store' = IF mlocal[c] = 0 THEN _store
                 ELSE MemoryCreate(_store, sid, mlocal[c])
    /\ heap' = Collect(heap, mlocal, _store')
    /\ rds' = IF rlocal[c] = <<>> THEN rds
              ELSE RedisCreate(rds, sid, rlocal[c][1], now)
    /\ mret' = 0 /\ rret' = <<>>
    /\ last' = [op |-> "create", c |-> c, sid |-> sid, before |-> Entries(sid)]
    /\ UNCHANGED <<now, mlocal, rlocal, xvars>>

\* await store.save(sid, data)
Save(c, sid) ==
    /\ mlocal[c] # 0 \/ rlocal[c] # <<>>
    /\ _store' = IF mlocal[c] = 0 THEN _store
                 ELSE MemorySave(_store, sid, mlocal[c])
    /\ heap' = Collect(heap, mlocal, _store')
    /\ rds' = IF rlocal[c] = <<>> THEN rds
              ELSE RedisSave(rds, sid, rlocal[c][1], now)
    /\ mret' = 0 /\ rret' = <<>>
    /\ last' = [op |-> "save", c |-> c, sid |-> sid, before |-> Entries(sid)]
    /\ UNCHANGED <<now, mlocal, rlocal, xvars>>

\* data = await store.get(sid)
Get(c, sid) ==
    LET m == MemoryGet(_store, heap, sid, now)
        r == RedisGet(rds, sid, now)
        ml == [mlocal EXCEPT ![c] = m.ret]
    IN /\ _store' = m.store
       /\ mlocal' = ml
       /\ mret' = m.ret
       /\ heap' = Collect(heap, ml, m.store)
       /\ rds' = r.db
       /\ rlocal' = [rlocal EXCEPT ![c] = r.ret]
       /\ rret' = r.ret
       /\ last' = [op |-> "get", c |-> c, sid |-> sid, before |-> Entries(sid)]
       /\ UNCHANGED <<now, xvars>>

\* await store.delete(sid)
Delete(c, sid) ==
    /\ _store' = MemoryDelete(_store, sid)
    /\ heap' = Collect(heap, mlocal, _store')
    /\ rds' = RedisDelete(rds, sid)
    /\ mret' = 0 /\ rret' = <<>>
    /\ last' = [op |-> "delete", c |-> c, sid |-> sid, before |-> Entries(sid)]
    /\ UNCHANGED <<now, mlocal, rlocal, xvars>>

\* the clock advances by one second; Redis drops the keys whose expiry passed
Tick ==
    /\ now < MaxTime
    /\ now' = now + 1
    /\ rds' = r_expire(rds, now + 1)
    /\ mret' = 0 /\ rret' = <<>>
    /\ last' = [op |-> "tick", c |-> last.c, sid |-> last.sid, before |-> NoEntries]
    /\ UNCHANGED <<heap, mlocal, _store, rlocal, xvars>>

Next ==
    \/ \E c \in Callers, l \in Languages, t \in TTLs, f \in {<<>>} \cup {<<x>> : x \in FilesDom} :
           Construct(c, l, t, f)
    \/ \E c \in Callers : Touch(c)
    \/ \E c \in Callers, f \in FilesDom : SetFiles(c, f)
    \/ \E c \in Callers, sid \in Sids : Create(c, sid)
    \/ \E c \in Callers, sid \in Sids : Save(c, sid)
    \/ \E c \in Callers, sid \in Sids : Get(c, sid)
    \/ \E c \in Callers, sid \in Sids : Delete(c, sid)
    \/ Tick

Spec == Init /\ [][Next]_vars

\* ---- what the stores hand to a caller ----

\* the value of the record behind a reference of the memory side
Deref(h, o) == IF o = 0 THEN <<>> ELSE <<h[o]>>

\* what get(sid) would return at time t >= now if nothing but the clock moved
MemoryView(sid, t) == Deref(heap, MemoryGet(_store, heap, sid, t).ret)
RedisView(sid, t) == RedisGet(r_expire(rds, t), sid, t).ret

\* ---- C1 ----
\* C1: a record returned by get is never expired: at the moment get returns
\* it, now - last_used <= ttl, on the memory side and on the Redis side.
C1_GetNeverReturnsExpired ==
    last.op = "get" =>
        /\ mret # 0 => now - heap[mret].last_used <= heap[mret].ttl
        /\ rret # <<>> => now - rret[1].last_used <= rret[1].ttl

\* a get found an expired record in both stores and returned absence
C1_Witness ==
    /\ last.op = "get"
    /\ last.before = [m |-> "expired", r |-> "expired"]
    /\ mret = 0 /\ rret = <<>>

\* ---- C2 ----
\* C2: lazy deletion on read: a get that finds an expired record under sid
\* returns absence, and when it has completed the store holds no entry for sid.
C2_LazyDeletion ==
    [][last'.op = "get" =>
        /\ MemoryEntry(last'.sid) = "expired" =>
               mret' = 0 /\ _store'[last'.sid] = 0
        /\ RedisEntry(last'.sid) = "expired" =>
               rret' = <<>> /\ rds'[_key(last'.sid)] = <<>>]_vars

\* after a get of an expired record neither store has an entry left
C2_Witness ==
    /\ last.op = "get"
    /\ last.before = [m |-> "expired", r |-> "expired"]
    /\ _store[last.sid] = 0
    /\ rds[_key(last.sid)] = <<>>

\* ---- C3 ----
\* C3: backend equivalence: every get returns the same thing from both
\* stores, the same four fields or absence in both.
C3_BackendEquivalence ==
    last.op = "get" => Deref(heap, mret) = rret

\* ---- C4 ----
\* C4: ownership: a touch of, or a change of files in, the caller's record
\* is not visible through the store before a save: what get(sid) returns is
\* the same before and after the mutation, in both stores.
C4_MutationNotStoredBeforeSave ==
    [][last'.op \in {"touch", "setfiles"} =>
        \A sid \in Sids :
            /\ MemoryView(sid, now)' = MemoryView(sid, now)
            /\ RedisView(sid, now)' = RedisView(sid, now)]_vars

\* the record the last create/save was called with, on each side
MemoryArg == mlocal[last.c]
RedisArg == rlocal[last.c]

\* ---- C5 ----
\* C5 as stated: save re-arms the TTL window as if the record were new: after
\* a save at time t, a get at any time before t + ttl returns the record.
C5_SaveRearmsWindow ==
    last.op = "save" =>
        \A d \in 0..MaxTime :
            /\ MemoryArg # 0 /\ d < heap[MemoryArg].ttl =>
                   MemoryView(last.sid, now + d) = <<heap[MemoryArg]>>
            /\ RedisArg # <<>> /\ d < RedisArg[1].ttl =>
                   RedisView(last.sid, now + d) = RedisArg

\* C5 amended: the window of a saved record runs from the record's own
\* last_used, not from the save: a get at time t' after the save returns the
\* record iff t' - last_used <= ttl, and absence otherwise.
C5_WindowFromLastUsed ==
    last.op = "save" =>
        \A d \in 0..MaxTime :
            /\ MemoryArg # 0 =>
                   MemoryView(last.sid, now + d) =
                       IF now + d - heap[MemoryArg].last_used <= heap[MemoryArg].ttl
                       THEN <<heap[MemoryArg]>> ELSE <<>>
            /\ RedisArg # <<>> =>
                   RedisView(last.sid, now + d) =
                       IF now + d - RedisArg[1].last_used <= RedisArg[1].ttl
                       THEN RedisArg ELSE <<>>

\* a record that was last used before the save has just been saved to both
\* stores, still inside its window
C5_Witness ==
    /\ last.op = "save"
    /\ MemoryArg # 0 /\ RedisArg # <<>>
    /\ RedisArg[1].last_used < now
    /\ heap[MemoryArg].last_used < now
    /\ now - RedisArg[1].last_used <= RedisArg[1].ttl
    /\ _store[last.sid] = MemoryArg
    /\ rds[_key(last.sid)] # <<>>

\* ---- C6 ----
\* C6: save does not touch: a save leaves the caller's record as it was, and
\* the entry it stores carries the language, ttl, last_used and files of the
\* record it was given.
C6_SaveDoesNotTouch ==
    [][\A c \in Callers, sid \in Sids :
        last'.op = "save" /\ last'.c = c /\ last'.sid = sid =>
           /\ mlocal[c] # 0 =>
                  /\ mlocal' = mlocal
                  /\ heap'[mlocal[c]] = heap[mlocal[c]]
                  /\ _store'[sid] = mlocal[c]
           /\ rlocal[c] # <<>> =>
                  /\ rlocal' = rlocal
                  /\ rds'[_key(sid)] # <<>>
                  /\ LET p == rds'[_key(sid)][1].payload
                         data == rlocal[c][1]
                     IN /\ PyValue(p.language) = data.language
                        /\ PyValue(p.ttl) = data.ttl
                        /\ PyValue(p.last_used) = data.last_used
                        /\ PyValue(p.files) = data.files
                  /\ RedisView(sid, now)' \in {<<>>, rlocal[c]}]_vars

\* a record last used at an earlier time has been saved and is stored with
\* that earlier last_used
C6_Witness ==
    /\ last.op = "save"
    /\ RedisArg # <<>> /\ MemoryArg # 0
    /\ RedisArg[1].last_used < now
    /\ rds[_key(last.sid)] # <<>>
    /\ PyValue(rds[_key(last.sid)][1].payload.last_used) < now
    /\ _store[last.sid] # 0
    /\ heap[_store[last.sid]].last_used < now

C8_CreateOverwrites ==
    last.op = "create" =>
        \A d \in 0..MaxTime :
            /\ MemoryArg # 0
                  /\ now + d - heap[MemoryArg].last_used <= heap[MemoryArg].ttl =>
                   MemoryGet(_store, heap, last.sid, now + d).ret = MemoryArg
            /\ RedisArg # <<>>
                  /\ now + d - RedisArg[1].last_used <= RedisArg[1].ttl =>
                   RedisView(last.sid, now + d) = RedisArg

\* a live record has been created over an expired entry of both stores
C8_Witness ==
    /\ last.op = "create"
    /\ last.before = [m |-> "expired", r |-> "expired"]
    /\ MemoryArg # 0 /\ RedisArg # <<>>
    /\ now - RedisArg[1].last_used <= RedisArg[1].ttl
    /\ now - heap[MemoryArg].last_used <= heap[MemoryArg].ttl

\* ---- C9 ----
\* C9: idempotent delete: a delete leaves no entry under sid; on an absent
\* sid it changes nothing; a second delete changes nothing more; and a get
\* afterwards returns absence.
C9_DeleteIdempotent ==
    [][\A sid \in Sids :
        last'.op = "delete" /\ last'.sid = sid =>
           /\ _store'[sid] = 0
           /\ rds'[_key(sid)] = <<>>
           /\ MemoryEntry(sid) = "absent" => _store' = _store /\ heap' = heap
           /\ RedisEntry(sid) = "absent" => rds' = rds
           /\ MemoryDelete(_store', sid) = _store'
           /\ RedisDelete(rds', sid) = rds'
           /\ MemoryView(sid, now)' = <<>>
           /\ RedisView(sid, now)' = <<>>]_vars

\* a delete of a sid neither store had an entry for
C9_Witness ==
    /\ last.op = "delete"
    /\ last.before = [m |-> "absent", r |-> "absent"]
    /\ _store[last.sid] = 0
    /\ rds[_key(last.sid)] = <<>>

\* ---- C10 ----
\* C10: expiration boundary: a record constructed at t0 with ttl T has
\* last_used = t0 and, while untouched, is not expired at any time up to and
\* including t0 + T and is expired at every later time.
C10_ExpirationBoundary ==
    last.op = "construct" =>
        /\ RedisArg # <<>> /\ MemoryArg # 0
        /\ RedisArg[1].last_used = now
        /\ heap[MemoryArg].last_used = now
        /\ \A d \in 0..MaxTime :
               /\ expired(RedisArg[1], now + d) <=> d > RedisArg[1].ttl
               /\ expired(heap[MemoryArg], now + d) <=> d > heap[MemoryArg].ttl

\* a record constructed after the clock has moved
C10_Witness ==
    /\ last.op = "construct"
    /\ now > 0
    /\ RedisArg # <<>>
    /\ RedisArg[1].last_used = now

\* ======================================================================
\* Serialization on its own: dumps and loads applied to every record
\* ======================================================================
AllTTLs == TTLs \cup {0, -1}
AllFiles == FilesDom \cup {[p \in {"a.py", "b/c.py"} |-> IF p = "a.py" THEN "x" ELSE ""]}
Records ==
    [language : Languages, ttl : AllTTLs, last_used : 0..MaxTime, files : AllFiles]

InitRT ==
    /\ XInit
    /\ now = 0
    /\ heap = [o \in Objs |-> FreeObj]
    /\ mlocal = [c \in Callers |-> 0]
    /\ _store = [s \in Sids |-> 0]
    /\ mret = 0
    /\ rlocal \in [Callers -> {<<R>> : R \in Records}]
    /\ rds = [k \in Keys |-> <<>>]
    /\ rret = <<>>
    /\ last = [op |-> "init", c |-> "c1", sid |-> "abc", before |-> NoEntries]

\* payload = data.dumps()
Dumps(c) ==
    /\ wire' = <<dumps(rlocal[c][1])>>
    /\ rret' = <<>>
    /\ last' = [last EXCEPT !.op = "dumps", !.c = c]
    /\ UNCHANGED <<now, heap, mlocal, _store, mret, rlocal, rds>>
    /\ UNCHANGED <<err, environ, store, up, calls, pc, running>>

\* data = SessionData.loads(payload)
Loads(c) ==
    /\ wire # <<>>
    /\ rret' = <<loads(wire[1])>>
    /\ last' = [last EXCEPT !.op = "loads", !.c = c]
    /\ UNCHANGED <<now, heap, mlocal, _store, mret, rlocal, rds>>
    /\ UNCHANGED xvars

\* time passes between serialization and deserialization
TickRT ==
    /\ now < MaxTime
    /\ now' = now + 1
    /\ UNCHANGED <<heap, mlocal, _store, mret, rlocal, rds, rret, last>>
    /\ UNCHANGED xvars

NextRT ==
    \/ \E c \in Callers : Dumps(c)
    \/ \E c \in Callers : Loads(c)
    \/ TickRT

SpecRT == InitRT /\ [][NextRT]_allvars

\* ---- C11 ----
\* C11: round trip: loads(dumps(R)) equals R in language, ttl, last_used and
\* files, for every record R, whenever the payload is deserialized.
C11_RoundTrip ==
    last.op = "loads" => rret = rlocal[last.c]

\* a record with no files and an earlier last_used has been deserialized
\* after the clock moved
C11_Witness ==
    /\ last.op = "loads"
    /\ rret # <<>>
    /\ rret[1].files = NoFiles
    /\ rret[1].last_used < now

\* ======================================================================
\* The factory get_store
\* ======================================================================
Urls == {"redis://a", "redis://b", "redis://c"}
EnvValues == {<<>>, <<"">>} \cup {<<u>> : u \in Urls}

\* os.getenv(name): None when the variable is not set
getenv(env, name) == env[name]

\* truth value of an optional string: None and "" are false
Truthy(v) == v # <<>> /\ v[1] # ""

\* a or b
PyOr(a, b) == IF Truthy(a) THEN a ELSE b

\* REDIS_URI looked up first
get_store_swapped(env) ==
    LET redis_url == PyOr(getenv(env, "REDIS_URI"), getenv(env, "REDIS_URL"))
    IN IF Truthy(redis_url)
       THEN [kind |-> "redis", url |-> redis_url[1]]
       ELSE [kind |-> "memory", url |-> ""]

get_store(env) ==
    LET redis_url == PyOr(getenv(env, "REDIS_URL"), getenv(env, "REDIS_URI"))
    IN IF Truthy(redis_url)
       THEN [kind |-> "redis", url |-> redis_url[1]]
       ELSE [kind |-> "memory", url |-> ""]

InitSel == Init

\* the environment the process is started in changes between calls
SetEnv(name, v) ==
    /\ environ' = [environ EXCEPT ![name] = v]
    /\ last' = [last EXCEPT !.op = "setenv"]
    /\ UNCHANGED <<now, heap, mlocal, _store, mret, rlocal, rds, rret>>
    /\ UNCHANGED <<wire, err, store, up, calls, pc, running>>

\* store = get_store()
GetStore ==
    /\ store' = <<get_store(environ)>>
    /\ last' = [last EXCEPT !.op = "get_store"]
    /\ UNCHANGED <<now, heap, mlocal, _store, mret, rlocal, rds, rret>>
    /\ UNCHANGED <<wire, err, environ, up, calls, pc, running>>

NextSel ==
    \/ \E n \in EnvNames, v \in EnvValues : SetEnv(n, v)
    \/ GetStore

SpecSel == InitSel /\ [][NextSel]_allvars

\* ---- C12 ----
\* C12 as stated: the first variable that is set wins: REDIS_URL when set,
\* else REDIS_URI when set, else the in-memory store.
C12_FirstSetWins ==
    last.op = "get_store" =>
        /\ environ["REDIS_URL"] # <<>> =>
               store = <<[kind |-> "redis", url |-> environ["REDIS_URL"][1]]>>
        /\ environ["REDIS_URL"] = <<>> /\ environ["REDIS_URI"] # <<>> =>
               store = <<[kind |-> "redis", url |-> environ["REDIS_URI"][1]]>>
        /\ environ["REDIS_URL"] = <<>> /\ environ["REDIS_URI"] = <<>> =>
               store = <<[kind |-> "memory", url |-> ""]>>

\* C12 amended: a variable set to the empty string counts as not set: the
\* first of REDIS_URL, REDIS_URI with a non-empty value is the connection
\* string of the Redis store returned, and with no such value the in-memory
\* store is returned; one store per call.
C12_FirstNonEmptyWins ==
    last.op = "get_store" =>
        /\ Len(store) = 1
        /\ store[1].kind \in {"redis", "memory"}
        /\ Truthy(environ["REDIS_URL"]) =>
               store = <<[kind |-> "redis", url |-> environ["REDIS_URL"][1]]>>
        /\ ~Truthy(environ["REDIS_URL"]) /\ Truthy(environ["REDIS_URI"]) =>
               store = <<[kind |-> "redis", url |-> environ["REDIS_URI"][1]]>>
        /\ ~Truthy(environ["REDIS_URL"]) /\ ~Truthy(environ["REDIS_URI"]) =>
               store = <<[kind |-> "memory", url |-> ""]>>

\* both variables hold different connection strings and REDIS_URL was used
C12_Witness ==
    /\ last.op = "get_store"
    /\ Truthy(environ["REDIS_URL"]) /\ Truthy(environ["REDIS_URI"])
    /\ environ["REDIS_URL"] # environ["REDIS_URI"]
    /\ store = <<[kind |-> "redis", url |-> environ["REDIS_URL"][1]]>>

\* ======================================================================
\* RedisSessionStore with the exceptions its calls can raise
\* ======================================================================
RequiredKeys == {"language", "ttl", "files", "last_used"}

\* obj["language"], obj["ttl"], obj["files"], obj["last_used"]: a missing key raises
loads_raises(payload) ==
    IF RequiredKeys \subseteq DOMAIN payload THEN "" ELSE "KeyError"

\* time.time() - self.last_used > self.ttl needs numbers
expired_raises(payload) ==
    IF payload.last_used[1] = "number" /\ payload.ttl[1] = "number"
    THEN "" ELSE "TypeError"

\* SET key value EX seconds: the server rejects seconds <= 0
r_set_raises(ex) == IF ex > 0 THEN "" ELSE "ResponseError"

\* RedisSessionStore.get with its outcome: the keyspace, the value returned,
\* the exception raised ("" = none) and the commands sent to the server
RedisGetCall(db, sid, t, isUp) ==
    LET payload == r_get(db, _key(sid), t) IN
    IF ~isUp
    THEN [db |-> db, ret |-> <<>>, err |-> "ConnectionError", calls |-> 1]
    ELSE IF payload = <<>>
    THEN [db |-> db, ret |-> <<>>, err |-> "", calls |-> 1]
    ELSE IF loads_raises(payload[1]) # ""
    THEN [db |-> db, ret |-> <<>>, err |-> loads_raises(payload[1]), calls |-> 1]
    ELSE IF expired_raises(payload[1]) # ""
    THEN [db |-> db, ret |-> <<>>, err |-> expired_raises(payload[1]), calls |-> 1]
    ELSE LET g == RedisGet(db, sid, t) IN
         [db |-> g.db, ret |-> g.ret, err |-> "",
          calls |-> IF expired(loads(payload[1]), t) THEN 2 ELSE 1]

\* a second attempt after a failed command
RedisSaveCall_retry(db, sid, data, t, isUp) ==
    IF ~isUp
    THEN [db |-> db, err |-> "ConnectionError", calls |-> 2]
    ELSE IF r_set_raises(data.ttl) # ""
    THEN [db |-> db, err |-> r_set_raises(data.ttl), calls |-> 1]
    ELSE [db |-> RedisSave(db, sid, data, t), err |-> "", calls |-> 1]

\* RedisSessionStore.save with its outcome
RedisSaveCall(db, sid, data, t, isUp) ==
    IF ~isUp
    THEN [db |-> db, err |-> "ConnectionError", calls |-> 1]
    ELSE IF r_set_raises(data.ttl) # ""
    THEN [db |-> db, err |-> r_set_raises(data.ttl), calls |-> 1]
    ELSE [db |-> RedisSave(db, sid, data, t), err |-> "", calls |-> 1]

\* RedisSessionStore.create with its outcome
RedisCreateCall(db, sid, data, t, isUp) == RedisSaveCall(db, sid, data, t, isUp)

\* RedisSessionStore.delete with its outcome
RedisDeleteCall(db, sid, isUp) ==
    IF ~isUp
    THEN [db |-> db, err |-> "ConnectionError", calls |-> 1]
    ELSE [db |-> RedisDelete(db, sid), err |-> "", calls |-> 1]

\* ---- payloads other writers of the keyspace can leave under a key ----
GoodPayloads ==
    {dumps(R) : R \in [language : {"python"}, ttl : {1}, last_used : {0}, files : FilesDom]}
Without(P, k) == [x \in DOMAIN P \ {k} |-> P[x]]
MissingKeyPayloads == {Without(P, k) : P \in GoodPayloads, k \in RequiredKeys}
WrongShapePayloads ==
    UNION {{[P EXCEPT !.ttl = JStr("60")],
            [P EXCEPT !.last_used = JStr("now")],
            [P EXCEPT !.language = JNum(7)],
            [P EXCEPT !.files = <<"array", <<"a.py">>>>]} : P \in GoodPayloads}
Payloads == GoodPayloads \cup MissingKeyPayloads \cup WrongShapePayloads

\* a payload is malformed when a required key is absent or a field has the
\* wrong shape
Malformed(P) ==
    \/ ~(RequiredKeys \subseteq DOMAIN P)
    \/ P.language[1] # "string"
    \/ P.ttl[1] # "number"
    \/ P.last_used[1] # "number"
    \/ P.files[1] # "object"

\* a payload arrives from the wire
Receive(P) ==
    /\ wire' = <<P>>
    /\ rret' = <<>>
    /\ err' = ""
    /\ last' = [last EXCEPT !.op = "receive"]
    /\ UNCHANGED <<now, heap, mlocal, _store, mret, rlocal, rds>>
    /\ UNCHANGED <<environ, store, up, calls, pc, running>>

\* data = SessionData.loads(payload), which may raise
LoadsPayload ==
    /\ wire # <<>>
    /\ err' = loads_raises(wire[1])
    /\ rret' = IF loads_raises(wire[1]) = "" THEN <<loads(wire[1])>> ELSE <<>>
    /\ last' = [last EXCEPT !.op = "loads"]
    /\ UNCHANGED <<now, heap, mlocal, _store, mret, rlocal, rds>>
    /\ UNCHANGED <<wire, environ, store, up, calls, pc, running>>

\* another client of the shared keyspace sets the key
ForeignSet(sid, P, ex) ==
    /\ rds' = r_set(rds, _key(sid), P, ex, now)
    /\ rret' = <<>>
    /\ err' = ""
    /\ last' = [last EXCEPT !.op = "set", !.sid = sid]
    /\ UNCHANGED <<now, heap, mlocal, _store, mret, rlocal>>
    /\ UNCHANGED <<wire, environ, store, up, calls, pc, running>>

\* data = await store.get(sid) on the Redis store
GetPayload(sid) ==
    LET g == RedisGetCall(rds, sid, now, up)
    IN /\ rds' = g.db
       /\ rret' = g.ret
       /\ err' = g.err
       /\ calls' = g.calls
       /\ last' = [last EXCEPT !.op = "get", !.sid = sid]
       /\ UNCHANGED <<now, heap, mlocal, _store, mret, rlocal>>
       /\ UNCHANGED <<wire, environ, store, up, pc, running>>

NextPay ==
    \/ \E P \in Payloads : Receive(P)
    \/ LoadsPayload
    \/ \E sid \in Sids, P \in Payloads, ex \in TTLs : ForeignSet(sid, P, ex)
    \/ \E sid \in Sids : GetPayload(sid)

SpecPay == Init /\ [][NextPay]_allvars

\* ---- C13 ----
\* C13: malformed payload: loads raises, and returns no record, whenever a
\* required key is absent or a field has the wrong shape; a get of such a
\* payload from Redis raises too, returns nothing and leaves the key as it is.
C13_MalformedRejected ==
    /\ last.op = "loads" /\ Malformed(wire[1]) => err # "" /\ rret = <<>>
    /\ last.op = "get" /\ rds[_key(last.sid)] # <<>>
           /\ Malformed(rds[_key(last.sid)][1].payload) => err # "" /\ rret = <<>>

\* ======================================================================
\* Concurrent tasks on one event loop: a task runs until it awaits
\* something that suspends it
\* ======================================================================

\* every await hands control back to the event loop
Suspends_every(at) == at \in {"mget_await_delete", "rget_await_get", "rget_await_delete"}

\* the places a store call can stand at, and whether the task is suspended
\* there: awaiting self._r.get / self._r.delete waits for the network;
\* awaiting MemorySessionStore.delete runs it to its end, it awaits nothing
Suspends(at) == at \in {"rget_await_get", "rget_await_delete"}

\* the task that runs after task k has reached the place `at`
Sched(k, at) == IF at = "idle" \/ Suspends(at) THEN "none" ELSE k

CanRun(k) == running \in {"none", k}

\* the record a task passes to save: last used at time u
TaskRecord(u) == SessionData("python", 1, <<>>, u)

\* references held by the tasks inside MemorySessionStore.get
Held(p) == {p[k].data[1] : k \in {j \in Tasks : p[j].at = "mget_await_delete"}}

CollectConc(h, st, p) ==
    [o \in Objs |-> IF o \in {st[s] : s \in Sids} \cup Held(p) THEN h[o] ELSE FreeObj]

FreeObjs == Objs \ ({_store[s] : s \in Sids} \cup Held(pc))

ConcFrame == UNCHANGED <<mlocal, mret, rlocal, rret, last, wire, err, environ, store, up, calls>>

\* await store.save(sid, data) on the memory store
TaskMemorySave(k, sid, u) ==
    /\ CanRun(k) /\ pc[k].at = "idle" /\ FreeObjs # {}
    /\ LET o == CHOOSE x \in FreeObjs : \A y \in FreeObjs : x <= y
       IN /\ _store' = MemorySave(_store, sid, o)
          /\ heap' = CollectConc([heap EXCEPT ![o] = TaskRecord(u)], _store', pc)
    /\ running' = Sched(k, "idle")
    /\ UNCHANGED <<now, rds, pc>>
    /\ ConcFrame

\* await store.delete(sid) on the memory store
TaskMemoryDelete(k, sid) ==
    /\ CanRun(k) /\ pc[k].at = "idle"
    /\ _store' = MemoryDelete(_store, sid)
    /\ heap' = CollectConc(heap, _store', pc)
    /\ running' = Sched(k, "idle")
    /\ UNCHANGED <<now, rds, pc>>
    /\ ConcFrame

\* MemorySessionStore.get up to `await self.delete(sid)`
TaskMemoryGet(k, sid) ==
    /\ CanRun(k) /\ pc[k].at = "idle"
    /\ LET data == _store[sid]
           at == IF data # 0 /\ expired(heap[data], now)
                 THEN "mget_await_delete" ELSE "idle"
       IN /\ pc' = [pc EXCEPT ![k] =
                     IF at = "idle" THEN Idle
                     ELSE [at |-> at, sid |-> sid, data |-> <<data>>]]
          /\ running' = Sched(k, at)
    /\ UNCHANGED <<now, rds, _store, heap>>
    /\ ConcFrame

\* MemorySessionStore.get: `await self.delete(sid)`, then return None
TaskMemoryGetDelete(k) ==
    /\ CanRun(k) /\ pc[k].at = "mget_await_delete"
    /\ _store' = MemoryDelete(_store, pc[k].sid)
    /\ pc' = [pc EXCEPT ![k] = Idle]
    /\ heap' = CollectConc(heap, _store', pc')
    /\ running' = Sched(k, "idle")
    /\ UNCHANGED <<now, rds>>
    /\ ConcFrame

\* await store.save(sid, data) on the Redis store
TaskRedisSave(k, sid, u) ==
    /\ CanRun(k) /\ pc[k].at = "idle"
    /\ rds' = RedisSave(rds, sid, TaskRecord(u), now)
    /\ running' = Sched(k, "idle")
    /\ UNCHANGED <<now, _store, heap, pc>>
    /\ ConcFrame

\* await store.delete(sid) on the Redis store
TaskRedisDelete(k, sid) ==
    /\ CanRun(k) /\ pc[k].at = "idle"
    /\ rds' = RedisDelete(rds, sid)
    /\ running' = Sched(k, "idle")
    /\ UNCHANGED <<now, _store, heap, pc>>
    /\ ConcFrame

\* RedisSessionStore.get: `await self._r.get(key)`; the server answers
TaskRedisGet(k, sid) ==
    /\ CanRun(k) /\ pc[k].at = "idle"
    /\ pc' = [pc EXCEPT ![k] = [at |-> "rget_await_get", sid |-> sid,
                                 data |-> r_get(rds, _key(sid), now)]]
    /\ running' = Sched(k, "rget_await_get")
    /\ UNCHANGED <<now, rds, _store, heap>>
    /\ ConcFrame

\* RedisSessionStore.get resumed with the payload: the checks, and the delete
TaskRedisGetResume(k) ==
    /\ CanRun(k) /\ pc[k].at = "rget_await_get"
    /\ LET payload == pc[k].data
           del == payload # <<>> /\ expired(loads(payload[1]), now)
           at == IF del THEN "rget_await_delete" ELSE "idle"
       IN /\ rds' = IF del THEN RedisDelete(rds, pc[k].sid) ELSE rds
          /\ pc' = [pc EXCEPT ![k] =
                     IF del THEN [at |-> at, sid |-> pc[k].sid, data |-> <<>>] ELSE Idle]
          /\ running' = Sched(k, at)
    /\ UNCHANGED <<now, _store, heap>>
    /\ ConcFrame

\* RedisSessionStore.get resumed after its delete: return None
TaskRedisGetReturn(k) ==
    /\ CanRun(k) /\ pc[k].at = "rget_await_delete"
    /\ pc' = [pc EXCEPT ![k] = Idle]
    /\ running' = Sched(k, "idle")
    /\ UNCHANGED <<now, rds, _store, heap>>
    /\ ConcFrame

TickConc ==
    /\ now < MaxTime
    /\ now' = now + 1
    /\ rds' = r_expire(rds, now + 1)
    /\ UNCHANGED <<_store, heap, pc, running>>
    /\ ConcFrame

NextConc ==
    \/ \E k \in Tasks, sid \in Sids, u \in 0..MaxTime : u <= now /\ TaskMemorySave(k, sid, u)
    \/ \E k \in Tasks, sid \in Sids : TaskMemoryDelete(k, sid)
    \/ \E k \in Tasks, sid \in Sids : TaskMemoryGet(k, sid)
    \/ \E k \in Tasks : TaskMemoryGetDelete(k)
    \/ \E k \in Tasks, sid \in Sids, u \in 0..MaxTime : u <= now /\ TaskRedisSave(k, sid, u)
    \/ \E k \in Tasks, sid \in Sids : TaskRedisDelete(k, sid)
    \/ \E k \in Tasks, sid \in Sids : TaskRedisGet(k, sid)
    \/ \E k \in Tasks : TaskRedisGetResume(k)
    \/ \E k \in Tasks : TaskRedisGetReturn(k)
    \/ TickConc

SpecConc == Init /\ [][NextConc]_allvars

\* ---- C14 ----
\* C14: the delete a Redis get issues after reading an expired payload never
\* removes a record that is not expired: whenever a get's delete runs, the
\* key holds nothing or an expired record.
C14_GetDeleteSparesFresh ==
    [][\A k \in Tasks :
        pc[k].at = "rget_await_get" /\ pc'[k].at = "rget_await_delete" =>
            RedisEntry(pc[k].sid) # "live"]_allvars

\* ---- C15 ----
\* C15: the memory store's calls are atomic: while a get stands between its
\* expiry check and its removal of the entry no other task takes a step, the
\* entry it removes is the expired one it checked, and it never removes a
\* live entry.
C15_MemoryAtomic ==
    [][\A k \in Tasks :
        pc[k].at = "mget_await_delete" =>
            /\ \A j \in Tasks \ {k} : pc'[j] = pc[j]
            /\ pc'[k].at = "idle" =>
                   /\ _store[pc[k].sid] = pc[k].data[1]
                   /\ MemoryEntry(pc[k].sid) # "live"
            /\ pc'[k] = pc[k] => _store' = _store]_allvars

\* a memory get has found an expired entry and is about to remove it while
\* the other task is in the middle of a Redis get
C15_Witness ==
    \E k \in Tasks, j \in Tasks :
        /\ k # j
        /\ pc[k].at = "mget_await_delete"
        /\ pc[j].at = "rget_await_get"
        /\ running = k

\* ======================================================================
\* Records with a non-positive ttl
\* ======================================================================

NonPositiveTTLs == {0, -1}

\* await store.create(sid, data), with what the call raises
CreateCall(c, sid) ==
    /\ mlocal[c] # 0 /\ rlocal[c] # <<>>
    /\ LET r == RedisCreateCall(rds, sid, rlocal[c][1], now, up)
       IN /\ rds' = r.db
          /\ err' = r.err
          /\ calls' = r.calls
    /\ _store' = MemoryCreate(_store, sid, mlocal[c])
    /\ heap' = Collect(heap, mlocal, _store')
    /\ mret' = 0 /\ rret' = <<>>
    /\ last' = [op |-> "create", c |-> c, sid |-> sid, before |-> Entries(sid)]
    /\ UNCHANGED <<now, mlocal, rlocal, wire, environ, store, up, pc, running>>

\* data = await store.get(sid), with what the call raises
GetCall(c, sid) ==
    LET m == MemoryGet(_store, heap, sid, now)
        r == RedisGetCall(rds, sid, now, up)
        ml == [mlocal EXCEPT ![c] = m.ret]
    IN /\ _store' = m.store
       /\ mlocal' = ml
       /\ mret' = m.ret
       /\ heap' = Collect(heap, ml, m.store)
       /\ rds' = r.db
       /\ rlocal' = [rlocal EXCEPT ![c] = r.ret]
       /\ rret' = r.ret
       /\ err' = r.err
       /\ calls' = r.calls
       /\ last' = [op |-> "get", c |-> c, sid |-> sid, before |-> Entries(sid)]
       /\ UNCHANGED <<now, wire, environ, store, up, pc, running>>

NextNP ==
    \/ \E c \in Callers, l \in Languages, ttl \in NonPositiveTTLs,
          f \in {<<>>} \cup {<<x>> : x \in FilesDom} :
           Construct(c, l, ttl, f)
    \/ \E c \in Callers, sid \in Sids : CreateCall(c, sid)
    \/ \E c \in Callers, sid \in Sids : GetCall(c, sid)
    \/ Tick

SpecNP == Init /\ [][NextNP]_allvars

\* ---- C16 ----
\* C16: create of a record with ttl <= 0 raises nothing on either backend,
\* and the stored record follows now - last_used > ttl: a get at a time t
\* returns it exactly when t - last_used <= ttl (never for a negative ttl,
\* only at t = last_used for ttl = 0).
C16_NonPositiveTtlAccepted ==
    last.op = "create" /\ RedisArg # <<>> /\ RedisArg[1].ttl <= 0 =>
        /\ err = ""
        /\ \A d \in 0..MaxTime :
               LET alive == (now + d) - RedisArg[1].last_used <= RedisArg[1].ttl
               IN /\ RedisView(last.sid, now + d) = IF alive THEN RedisArg ELSE <<>>
                  /\ MemoryView(last.sid, now + d) = IF alive THEN RedisArg ELSE <<>>

\* the memory store's half of C16
C16_MemoryFollowsArithmetic ==
    last.op = "create" /\ MemoryArg # 0 /\ heap[MemoryArg].ttl <= 0 =>
        \A d \in 0..MaxTime :
            MemoryView(last.sid, now + d) =
                IF (now + d) - heap[MemoryArg].last_used <= heap[MemoryArg].ttl
                THEN <<heap[MemoryArg]>> ELSE <<>>

\* ---- C17 ----
\* C17: in the Redis store create and save are one operation: from any state
\* create(sid, r) and save(sid, r) leave the same keyspace, and after either
\* the key "sf:session:" + sid holds exactly the serialized r with an expiry
\* of r.ttl seconds counted from the call, whatever value and expiry the key
\* had before.
C17_CreateIsSave ==
    /\ \A c \in Callers, sid \in Sids :
           rlocal[c] # <<>> =>
               RedisCreate(rds, sid, rlocal[c][1], now) = RedisSave(rds, sid, rlocal[c][1], now)
    /\ last.op \in {"create", "save"} /\ RedisArg # <<>> =>
           /\ rds[_key(last.sid)] =
                  <<[payload |-> dumps(RedisArg[1]), exp |-> now + RedisArg[1].ttl]>>
           /\ \A d \in 0..MaxTime :
                  r_get(r_expire(rds, now + d), _key(last.sid), now + d) # <<>>
                      <=> d <= RedisArg[1].ttl

\* a create at a later time over a key that still held an earlier record
C17_Witness ==
    /\ last.op = "create"
    /\ last.before.r \in {"live", "expired"}
    /\ RedisArg # <<>>
    /\ now > 0

\* ======================================================================
\* Two session ids in the same stores
\* ======================================================================

\* the second id looks like the key of the first
IsoSids == {"abc", "sf:session:abc"}

InitIso ==
    /\ now = 0
    /\ heap = [o \in Objs |-> FreeObj]
    /\ mlocal = [c \in Callers |-> 0]
    /\ _store = [s \in IsoSids |-> 0]
    /\ mret = 0
    /\ rlocal = [c \in Callers |-> <<>>]
    /\ rds = [k \in {_key(s) : s \in IsoSids} |-> <<>>]
    /\ rret = <<>>
    /\ last = [op |-> "init", c |-> "c1", sid |-> "abc", before |-> NoEntries]
    /\ XInit

\* a fresh object for a record to be stored under sid
AllocIso(sid) ==
    LET free == Objs \ {_store[s] : s \in IsoSids \ {sid}}
    IN CHOOSE o \in free : \A p \in free : o <= p

CollectIso(h, st) ==
    [o \in Objs |-> IF o \in {st[s] : s \in IsoSids} THEN h[o] ELSE FreeObj]

IsoFrame == UNCHANGED <<now, mlocal, rlocal, xvars>>

\* await store.create(sid, data), data constructed at time u
CreateIso(sid, ttl, u) ==
    LET o == AllocIso(sid)
        rec == SessionData("python", ttl, <<>>, u)
    IN /\ _store' = MemoryCreate(_store, sid, o)
       /\ heap' = CollectIso([heap EXCEPT ![o] = rec], _store')
       /\ rds' = RedisCreate(rds, sid, rec, now)
       /\ mret' = 0 /\ rret' = <<>>
       /\ last' = [op |-> "create", c |-> "c1", sid |-> sid, before |-> Entries(sid)]
       /\ IsoFrame

\* await store.save(sid, data), data constructed at time u
SaveIso(sid, ttl, u) ==
    LET o == AllocIso(sid)
        rec == SessionData("python", ttl, <<>>, u)
    IN /\ _store' = MemorySave(_store, sid, o)
       /\ heap' = CollectIso([heap EXCEPT ![o] = rec], _store')
       /\ rds' = RedisSave(rds, sid, rec, now)
       /\ mret' = 0 /\ rret' = <<>>
       /\ last' = [op |-> "save", c |-> "c1", sid |-> sid, before |-> Entries(sid)]
       /\ IsoFrame

\* await store.get(sid)
GetIso(sid) ==
    LET m == MemoryGet(_store, heap, sid, now)
        r == RedisGet(rds, sid, now)
    IN /\ _store' = m.store
       /\ heap' = CollectIso(heap, m.store)
       /\ rds' = r.db
       /\ mret' = 0 /\ rret' = r.ret
       /\ last' = [op |-> "get", c |-> "c1", sid |-> sid, before |-> Entries(sid)]
       /\ IsoFrame

\* await store.delete(sid)
DeleteIso(sid) ==
    /\ _store' = MemoryDelete(_store, sid)
    /\ heap' = CollectIso(heap, _store')
    /\ rds' = RedisDelete(rds, sid)
    /\ mret' = 0 /\ rret' = <<>>
    /\ last' = [op |-> "delete", c |-> "c1", sid |-> sid, before |-> Entries(sid)]
    /\ IsoFrame

NextIso ==
    \/ \E sid \in IsoSids, ttl \in TTLs, u \in 0..MaxTime : u <= now /\ CreateIso(sid, ttl, u)
    \/ \E sid \in IsoSids, ttl \in TTLs, u \in 0..MaxTime : u <= now /\ SaveIso(sid, ttl, u)
    \/ \E sid \in IsoSids : GetIso(sid)
    \/ \E sid \in IsoSids : DeleteIso(sid)
    \/ Tick

SpecIso == InitIso /\ [][NextIso]_allvars

\* the record the memory store holds under sid (<<>> when it holds none)
MemoryRecord(st, h, sid) == IF st[sid] = 0 THEN <<>> ELSE <<h[st[sid]]>>

\* ---- C18 ----
\* C18: isolation between ids: a create, get, save or delete on id A leaves
\* the entry under every other id B as it was, in the memory store (the
\* mapping's entry and the record behind it) and in the Redis store (the
\* key's value and expiry); distinct ids have distinct keys.
C18_Isolation ==
    [][\A A \in IsoSids, B \in IsoSids :
          A # B =>
              /\ _key(A) # _key(B)
              /\ now' = now /\ last'.sid = A /\ last'.op # "init" =>
                     /\ MemoryRecord(_store', heap', B) = MemoryRecord(_store, heap, B)
                     /\ (_store'[B] = 0) <=> (_store[B] = 0)
                     /\ rds'[_key(B)] = rds[_key(B)]]_allvars

\* a get has just removed the expired entry of one id while the other id
\* has a record in both stores
C18_Witness ==
    \E A \in IsoSids, B \in IsoSids :
        /\ A # B
        /\ last.op = "get" /\ last.sid = A
        /\ last.before = [m |-> "expired", r |-> "expired"]
        /\ _store[A] = 0 /\ rds[_key(A)] = <<>>
        /\ _store[B] # 0 /\ rds[_key(B)] # <<>>

\* ---- C19 ----
\* C19: a get that returns a record changes nothing in the store: the
\* mapping, the stored record with its last_used, the key's value and its
\* expiry stay as they were. In the memory store the passing of time changes
\* no entry, and an entry is removed only by a get or a delete of its id and
\* replaced only by a create or save of its id.
C19_GetReadOnly ==
    [][/\ last'.op = "get" /\ mret' # 0 =>
              /\ _store' = _store
              /\ heap'[mret'] = heap[mret']
       /\ last'.op = "get" /\ rret' # <<>> => rds' = rds
       /\ last'.op = "tick" =>
              /\ _store' = _store
              /\ \A s \in Sids : _store[s] # 0 => heap'[_store[s]] = heap[_store[s]]
       /\ \A s \in Sids :
              /\ _store[s] # 0 /\ _store'[s] = 0 =>
                     last'.op \in {"get", "delete"} /\ last'.sid = s
              /\ _store'[s] # _store[s] /\ _store'[s] # 0 =>
                     last'.op \in {"create", "save"} /\ last'.sid = s]_vars

\* a get returned, from both stores, a record stored at an earlier time,
\* here in the last instant of its life
C19_Witness ==
    /\ last.op = "get"
    /\ mret # 0 /\ rret # <<>>
    /\ now > rret[1].last_used
    /\ now - rret[1].last_used = rret[1].ttl

\* ======================================================================
\* The store get_store() selected, used while the Redis server is
\* reachable or not
\* ======================================================================

StoreOps == {"create", "get", "save", "delete"}

\* the server becomes unreachable / reachable again
BackendDown ==
    /\ up /\ up' = FALSE
    /\ last' = [last EXCEPT !.op = "down"]
    /\ UNCHANGED <<now, heap, mlocal, _store, mret, rlocal, rds, rret>>
    /\ UNCHANGED <<wire, err, environ, store, calls, pc, running>>

BackendUp ==
    /\ ~up /\ up' = TRUE
    /\ last' = [last EXCEPT !.op = "up"]
    /\ UNCHANGED <<now, heap, mlocal, _store, mret, rlocal, rds, rret>>
    /\ UNCHANGED <<wire, err, environ, store, calls, pc, running>>

\* store = get_store(): RedisSessionStore.__init__ builds the client with
\* redis.from_url, which sends nothing to the server
GetStoreCall ==
    /\ store' = <<get_store(environ)>>
    /\ err' = ""
    /\ calls' = 0
    /\ last' = [last EXCEPT !.op = "get_store"]
    /\ UNCHANGED <<now, heap, mlocal, _store, mret, rlocal, rds, rret>>
    /\ UNCHANGED <<wire, environ, up, pc, running>>

IsRedis == store # <<>> /\ store[1].kind = "redis"
IsMemory == store # <<>> /\ store[1].kind = "memory"

StoreFrame == UNCHANGED <<now, wire, environ, store, up, pc, running>>

\* await store.create(sid, data) / await store.save(sid, data)
StoreWrite(op, c, sid) ==
    /\ store # <<>> /\ mlocal[c] # 0 /\ rlocal[c] # <<>>
    /\ LET r == IF op = "create"
                THEN RedisCreateCall(rds, sid, rlocal[c][1], now, up)
                ELSE RedisSaveCall(rds, sid, rlocal[c][1], now, up)
       IN /\ rds' = IF IsRedis THEN r.db ELSE rds
          /\ err' = IF IsRedis THEN r.err ELSE ""
          /\ calls' = IF IsRedis THEN r.calls ELSE 0
    /\ _store' = IF IsRedis THEN _store
                 ELSE IF op = "create" THEN MemoryCreate(_store, sid, mlocal[c])
                 ELSE MemorySave(_store, sid, mlocal[c])
    /\ heap' = Collect(heap, mlocal, _store')
    /\ mret' = 0 /\ rret' = <<>>
    /\ last' = [op |-> op, c |-> c, sid |-> sid, before |-> Entries(sid)]
    /\ UNCHANGED <<mlocal, rlocal>>
    /\ StoreFrame

\* data = await store.get(sid); the caller's variable is assigned only when
\* the call returns
StoreGet(c, sid) ==
    /\ store # <<>>
    /\ LET m == MemoryGet(_store, heap, sid, now)
           r == RedisGetCall(rds, sid, now, up)
           ml == IF IsMemory THEN [mlocal EXCEPT ![c] = m.ret] ELSE mlocal
       IN /\ _store' = IF IsMemory THEN m.store ELSE _store
          /\ mlocal' = ml
          /\ mret' = IF IsMemory THEN m.ret ELSE 0
          /\ heap' = Collect(heap, ml, _store')
          /\ rds' = IF IsRedis THEN r.db ELSE rds
          /\ rret' = IF IsRedis THEN r.ret ELSE <<>>
          /\ rlocal' = IF IsRedis /\ r.err = "" THEN [rlocal EXCEPT ![c] = r.ret] ELSE rlocal
          /\ err' = IF IsRedis THEN r.err ELSE ""
          /\ calls' = IF IsRedis THEN r.calls ELSE 0
    /\ last' = [op |-> "get", c |-> c, sid |-> sid, before |-> Entries(sid)]
    /\ StoreFrame

\* await store.delete(sid)
StoreDelete(c, sid) ==
    /\ store # <<>>
    /\ LET r == RedisDeleteCall(rds, sid, up)
       IN /\ rds' = IF IsRedis THEN r.db ELSE rds
          /\ err' = IF IsRedis THEN r.err ELSE ""
          /\ calls' = IF IsRedis THEN r.calls ELSE 0
    /\ _store' = IF IsMemory THEN MemoryDelete(_store, sid) ELSE _store
    /\ heap' = Collect(heap, mlocal, _store')
    /\ mret' = 0 /\ rret' = <<>>
    /\ last' = [op |-> "delete", c |-> c, sid |-> sid, before |-> Entries(sid)]
    /\ UNCHANGED <<mlocal, rlocal>>
    /\ StoreFrame

NextFail ==
    \/ \E n \in EnvNames, v \in {<<>>, <<"redis://a">>} : SetEnv(n, v)
    \/ GetStoreCall
    \/ BackendDown
    \/ BackendUp
    \/ \E c \in Callers, ttl \in TTLs : Construct(c, "python", ttl, <<>>)
    \/ \E op \in {"create", "save"}, c \in Callers, sid \in Sids : StoreWrite(op, c, sid)
    \/ \E c \in Callers, sid \in Sids : StoreGet(c, sid)
    \/ \E c \in Callers, sid \in Sids : StoreDelete(c, sid)

SpecFail == Init /\ [][NextFail]_allvars

====
